---- MODULE Spec2Model ----
(***************************************************************************)
(* Model of the two services of the repository.                            *)
(*                                                                         *)
(*  image-service: the asynchronous job lifecycle.  POST /jobs             *)
(*  (create_image_job) publishes one Celery task per job, a worker runs    *)
(*  process_image_job, GET /jobs/{job_id} (get_job_status) maps the task   *)
(*  state kept in the result backend to the API's JobStatus.               *)
(*                                                                         *)
(*  text-service: the provider factory (ModelProviderFactory), its API-key *)
(*  resolver, the provider constructors and the /v1/providers endpoint.    *)
(***************************************************************************)
EXTENDS Naturals, Integers, Sequences, FiniteSets, TLC

VARIABLES
    broker,      \* image-service: the Redis list of published task messages
    backend,     \* image-service: result backend, task id -> task meta
    running,     \* image-service: worker slot -> the messages it executes (none or one)
    executions,  \* image-service: task id -> number of times the task body ran
    issued,      \* image-service: the responses create_image_job has returned
    lastPoll,    \* image-service: job id -> the last response of get_job_status
    observed,    \* image-service: job id -> the statuses its polls returned, in
                 \*   order, a run of equal statuses kept once
    _providers,  \* text-service: ModelProviderFactory._providers
    settings,    \* text-service: the Settings instance of get_settings()
    environ,     \* text-service: os.environ
    last         \* text-service: the last call made and what it returned

vars == <<broker, backend, running, executions, issued, lastPoll, observed,
          _providers, settings, environ, last>>

jobVars == <<broker, backend, running, executions, issued, lastPoll, observed>>
textVars == <<_providers, settings, environ, last>>

\* Python's None, where the value is otherwise a string.
None == "<None>"

----------------------------------------------------------------------------
(* image-service                                                           *)

\* Bounds of the job model.
NumIds == 3
MaxSubmits == 2
NumWorkers == 2

JobIds == 1..NumIds
Workers == 1..NumWorkers

\* A worker slot that executes nothing.
Idle == <<>>

\* JobStatus
QUEUED == "queued"
PROCESSING == "processing"
COMPLETED == "completed"
FAILED == "failed"
JobStatus == {QUEUED, PROCESSING, COMPLETED, FAILED}

\* The states a Celery task can have in the result backend.
CeleryStates == {"PENDING", "RECEIVED", "STARTED", "SUCCESS", "FAILURE",
                 "REVOKED", "REJECTED", "RETRY", "IGNORED"}

\* The meta of a task the backend holds nothing about: AsyncResult reports
\* PENDING for it, whether the id was ever published or not.
NoMeta == [state |-> "PENDING", result |-> [type |-> "NoneType"]]

\* The ids taken so far.
IssuedIds == {issued[i].job_id : i \in 1..Len(issued)}

\* uuid4() as a constant generator: the same id on every call.
uuid4_const(used) == {1}

\* An id cut to a prefix too short to tell all jobs apart.
uuid4_truncated(used) == {((j - 1) % 2) + 1 : j \in JobIds \ used}

\* str(uuid.uuid4()): a random id, unique by the contract of version-4 UUIDs.
uuid4(used) == JobIds \ used

\* uuid4() as the random draw it is, without the uniqueness contract: nothing
\* in create_image_job compares the new id with the ids already in use.
uuid4_random(used) == JobIds

\* apply_async that drops a message when the queue is not empty.
apply_async_lossy(queue, job_id) == IF queue = <<>> THEN <<job_id>> ELSE queue

\* process_image_job.apply_async(args=[job_id, payload], task_id=job_id):
\* pushes one message on the broker's list; the list is not keyed by task id.
apply_async(queue, job_id) == Append(queue, job_id)

\* The ImageJobResponse create_image_job returns.
create_image_job_response(job_id) ==
    [job_id |-> job_id, status |-> QUEUED, result_url |-> None,
     error |-> None, queue_position |-> 1]

\* POST /jobs with the id drawn from ids.
create_image_job_with(ids) ==
    /\ Len(issued) < MaxSubmits
    /\ \E job_id \in ids :
          /\ broker' = apply_async(broker, job_id)
          /\ issued' = Append(issued, create_image_job_response(job_id))
    /\ UNCHANGED <<backend, running, executions, lastPoll, observed>>
    /\ UNCHANGED textVars

create_image_job ==
    create_image_job_with(uuid4(IssuedIds))

create_image_job_any_id ==
    create_image_job_with(uuid4_random(IssuedIds))

\* The worker takes the next message off the broker and starts the task body.
\* task_track_started is not set in celery.py, so nothing is written to the
\* backend here, and the body itself writes nothing ("Mocking DB update").
worker_start(w) ==
    /\ running[w] = Idle
    /\ broker # <<>>
    /\ running' = [running EXCEPT ![w] = <<Head(broker)>>]
    /\ broker' = Tail(broker)
    /\ executions' = [executions EXCEPT ![Head(broker)] = @ + 1]
    /\ UNCHANGED <<backend, issued, lastPoll, observed>>
    /\ UNCHANGED textVars

\* A task body that returns without the result_url key.
process_image_job_return_no_url(job_id) ==
    [type |-> "dict", job_id |-> job_id, status |-> COMPLETED]

\* The dict process_image_job returns.
process_image_job_return(job_id) ==
    [type |-> "dict", job_id |-> job_id, status |-> COMPLETED,
     result_url |-> "https://example.com/processed_image.png"]

\* backend.store_result(task_id, result, state): the key-value backend keeps
\* the meta of a task already stored as SUCCESS and writes over anything else.
store_result(meta, new) == IF meta.state = "SUCCESS" THEN meta ELSE new

\* A worker that drops the returned value, as a task declared with
\* ignore_result would.
worker_success_ignore_result(w) ==
    /\ running[w] # Idle
    /\ running' = [running EXCEPT ![w] = Idle]
    /\ UNCHANGED <<broker, backend, executions, issued, lastPoll, observed>>
    /\ UNCHANGED textVars

\* The task body returns: Celery stores SUCCESS with the returned value.
worker_success(w) ==
    /\ running[w] # Idle
    /\ backend' = [backend EXCEPT ![running[w][1]] =
                      store_result(@,
                          [state |-> "SUCCESS",
                           result |-> process_image_job_return(running[w][1])])]
    /\ running' = [running EXCEPT ![w] = Idle]
    /\ UNCHANGED <<broker, executions, issued, lastPoll, observed>>
    /\ UNCHANGED textVars

\* str() of the exceptions a task can end with: an exception raised without
\* arguments has the empty string.
ExcMessages == {"", "error"}

\* A worker that publishes a failed task again, as a task declared with
\* autoretry_for would.
worker_failure_retrying(w) ==
    /\ running[w] # Idle
    /\ \E msg \in ExcMessages :
          backend' = [backend EXCEPT ![running[w][1]] =
                         store_result(@,
                             [state |-> "FAILURE",
                              result |-> [type |-> "Exception", msg |-> msg]])]
    /\ broker' = Append(broker, running[w][1])
    /\ running' = [running EXCEPT ![w] = Idle]
    /\ UNCHANGED <<executions, issued, lastPoll, observed>>
    /\ UNCHANGED textVars

\* An exception leaves the task (the body has no handler of its own): Celery
\* stores FAILURE with the exception, and the worker slot is free again.
worker_failure(w) ==
    /\ running[w] # Idle
    /\ \E msg \in ExcMessages :
          backend' = [backend EXCEPT ![running[w][1]] =
                         store_result(@,
                             [state |-> "FAILURE",
                              result |-> [type |-> "Exception", msg |-> msg]])]
    /\ running' = [running EXCEPT ![w] = Idle]
    /\ UNCHANGED <<broker, executions, issued, lastPoll, observed>>
    /\ UNCHANGED textVars

\* The if/elif chain of get_job_status: PROCESSING unless one branch is taken.
api_status(celery_state) ==
    CASE celery_state = "SUCCESS" -> COMPLETED
      [] celery_state = "FAILURE" -> FAILED
      [] celery_state = "PENDING" -> QUEUED
      [] OTHER -> PROCESSING

\* output.get("result_url") when the result is a dict, else None.
result_url_of(meta) ==
    IF meta.state = "SUCCESS" /\ meta.result.type = "dict"
    THEN IF "result_url" \in DOMAIN meta.result THEN meta.result.result_url
         ELSE None
    ELSE None

\* str(task_result.result) of a failed task, else None.
error_msg_of(meta) ==
    IF meta.state = "FAILURE" THEN meta.result.msg ELSE None

\* The ImageJobResponse get_job_status returns for the meta of a task.
get_job_status_response(job_id, meta) ==
    [job_id |-> job_id, status |-> api_status(meta.state),
     result_url |-> result_url_of(meta), error |-> error_msg_of(meta),
     queue_position |-> None]

\* No response yet.
NoResponse == [status |-> None]

\* A poll that also drops the task's meta from the backend, as
\* task_result.forget() would.
get_job_status_forgetting(job_id) ==
    /\ lastPoll' = [lastPoll EXCEPT ![job_id] =
                       get_job_status_response(job_id, backend[job_id])]
    /\ observed' = [observed EXCEPT ![job_id] =
                       IF lastPoll[job_id].status = lastPoll'[job_id].status
                       THEN @ ELSE Append(@, lastPoll'[job_id].status)]
    /\ backend' = [backend EXCEPT ![job_id] = NoMeta]
    /\ UNCHANGED <<broker, running, executions, issued>>
    /\ UNCHANGED textVars

\* A poll that answers 404 for an id create_image_job never returned.
get_job_status_not_found(job_id) ==
    /\ lastPoll' = [lastPoll EXCEPT ![job_id] =
                       IF job_id \in IssuedIds
                       THEN get_job_status_response(job_id, backend[job_id])
                       ELSE [job_id |-> job_id, status |-> "not_found",
                             result_url |-> None, error |-> "Job not found",
                             queue_position |-> None]]
    /\ observed' = [observed EXCEPT ![job_id] =
                       IF lastPoll[job_id].status = lastPoll'[job_id].status
                       THEN @ ELSE Append(@, lastPoll'[job_id].status)]
    /\ UNCHANGED <<broker, backend, running, executions, issued>>
    /\ UNCHANGED textVars

\* GET /jobs/{job_id}, for any id, issued or not.
get_job_status(job_id) ==
    /\ lastPoll' = [lastPoll EXCEPT ![job_id] =
                       get_job_status_response(job_id, backend[job_id])]
    /\ observed' = [observed EXCEPT ![job_id] =
                       IF lastPoll[job_id].status = lastPoll'[job_id].status
                       THEN @ ELSE Append(@, lastPoll'[job_id].status)]
    /\ UNCHANGED <<broker, backend, running, executions, issued>>
    /\ UNCHANGED textVars

----------------------------------------------------------------------------
(* text-service                                                            *)

\* A keyword argument that is not passed (None is a value that is passed).
Absent == "<absent>"

\* Python truthiness of an optional string.
Truthy(v) == v # None /\ v # Absent /\ v # ""

\* The provider names callers pass.
ProviderNames == {"gemini", "GEMINI", "mock", "OpenAI", "nope"}

\* str.lower() on the names in use.
lower(name) ==
    CASE name = "GEMINI" -> "gemini"
      [] name = "Gemini" -> "gemini"
      [] name = "OpenAI" -> "openai"
      [] name = "OPENAI" -> "openai"
      [] name = "Mock" -> "mock"
      [] OTHER -> name

\* f"{provider.upper()}_API_KEY" for a lower-cased provider name.
env_var(provider) ==
    CASE provider = "gemini" -> "GEMINI_API_KEY"
      [] provider = "openai" -> "OPENAI_API_KEY"
      [] provider = "mock" -> "MOCK_API_KEY"
      [] provider = "nope" -> "NOPE_API_KEY"
      [] provider = "google" -> "GOOGLE_API_KEY"
      [] OTHER -> "_API_KEY"

\* f"{provider}_api_key" for a lower-cased provider name.
candidate_attr(provider) ==
    CASE provider = "gemini" -> "gemini_api_key"
      [] provider = "openai" -> "openai_api_key"
      [] provider = "mock" -> "mock_api_key"
      [] provider = "nope" -> "nope_api_key"
      [] provider = "google" -> "google_api_key"
      [] OTHER -> "_api_key"

\* The environment variables the code reads.
EnvNames == {"GEMINI_API_KEY", "OPENAI_API_KEY", "MOCK_API_KEY",
             "NOPE_API_KEY", "GOOGLE_API_KEY", "_API_KEY"}

\* os.environ.get(name): None when the variable is not set.
environ_get(name) == IF name \in DOMAIN environ THEN environ[name] ELSE None

\* The providers the Settings class declares entries for.
SettingsProviders == {"gemini", "openai", "huggingface"}

\* The default model_name of each provider_settings block.
default_model_name(p) ==
    CASE p = "gemini" -> "models/gemini-2.5-flash"
      [] p = "openai" -> "gpt-4o-mini"
      [] OTHER -> "distilbert-base-uncased"

\* getattr(settings, name, None): Settings declares default_provider,
\* mock_mode, api_keys and provider_settings, and ignores extra input.
settings_getattr(s, name) == IF name \in DOMAIN s THEN s[name] ELSE None

\* d.get(key) of a dict: None for a missing key.
dict_get(d, key) == IF key \in DOMAIN d THEN d[key] ELSE None

\* The Settings instance with the credentials of provider cp set to psK (its
\* provider_settings block) and akK (the api_keys map); everything else as
\* the class declares it.
SettingsOf(cp, psK, akK) ==
    [default_provider |-> "gemini",
     mock_mode |-> TRUE,
     api_keys |-> [p \in SettingsProviders |-> IF p = cp THEN akK ELSE None],
     provider_settings |-> [p \in SettingsProviders |->
                      [model_name |-> default_model_name(p),
                       api_key |-> IF p = cp THEN psK ELSE None]]]

\* os.environ with <CP>_API_KEY set to envK and GOOGLE_API_KEY to aliasK.
EnvironOf(cp, envK, aliasK) ==
    [n \in EnvNames |->
        CASE n = "GOOGLE_API_KEY" -> aliasK
          [] n = env_var(cp) -> envK
          [] OTHER -> None]

\* The providers whose credentials the model configures.
ConfiguredProviders == {"gemini", "openai"}

\* _resolve_api_key with the environment variable read before the api_keys map.
_resolve_api_key_env_first(provider_name, s) ==
    LET provider == lower(IF provider_name = None THEN "" ELSE provider_name)
        k1 == IF provider \in DOMAIN s.provider_settings
              THEN s.provider_settings[provider].api_key ELSE None
        k2 == settings_getattr(s, candidate_attr(provider))
        k2b == dict_get(s.api_keys, provider)
        k3 == environ_get(env_var(provider))
        k4 == environ_get("GOOGLE_API_KEY")
        k4b == settings_getattr(s, "google_api_key")
    IN  IF Truthy(k1) THEN k1
        ELSE IF Truthy(k2) THEN k2
        ELSE IF Truthy(k3) THEN k3
        ELSE IF Truthy(k2b) THEN k2b
        ELSE IF provider = "gemini" /\ Truthy(k4) THEN k4
        ELSE IF provider = "gemini" /\ Truthy(k4b) THEN k4b
        ELSE None

\* ModelProviderFactory._resolve_api_key(provider_name, settings), for a
\* Settings instance (never None, always with provider_settings and api_keys).
\* The tiers are tried in the order of the code's early returns.
_resolve_api_key(provider_name, s) ==
    LET provider == lower(IF provider_name = None THEN "" ELSE provider_name)
        k1 == IF provider \in DOMAIN s.provider_settings
              THEN s.provider_settings[provider].api_key ELSE None
        k2 == settings_getattr(s, candidate_attr(provider))
        k2b == dict_get(s.api_keys, provider)
        k3 == environ_get(env_var(provider))
        k4 == environ_get("GOOGLE_API_KEY")
        k4b == settings_getattr(s, "google_api_key")
    IN  IF Truthy(k1) THEN k1
        ELSE IF Truthy(k2) THEN k2
        ELSE IF Truthy(k2b) THEN k2b
        ELSE IF Truthy(k3) THEN k3
        ELSE IF provider = "gemini" /\ Truthy(k4) THEN k4
        ELSE IF provider = "gemini" /\ Truthy(k4b) THEN k4b
        ELSE None

\* The provider classes: the two built in, and one a caller registers.
GeminiProvider == "GeminiProvider"
MockProvider == "MockProvider"
PluginProvider == "PluginProvider"

\* Keyword arguments: every name maps to its value, or to Absent.
KwargNames == {"api_key", "model_name", "category", "platform"}
NoKwargs == [k \in KwargNames |-> Absent]
Passed(kwargs) == {k \in KwargNames : kwargs[k] # Absent}

\* The keyword parameters each constructor declares.
accepts(cls) ==
    IF cls = MockProvider THEN {} ELSE {"api_key", "model_name"}

\* GeminiProvider.__init__(api_key=None, model_name="gemini-2.5-flash")
GeminiProvider_init(kwargs) ==
    LET arg == IF kwargs["api_key"] = Absent THEN None ELSE kwargs["api_key"]
        api_key == IF Truthy(arg) THEN arg ELSE environ_get("GOOGLE_API_KEY")
    IN  IF ~Truthy(api_key)
        THEN [kind |-> "ValueError", error |-> "GOOGLE_API_KEY not found"]
        ELSE [kind |-> "instance", cls |-> GeminiProvider, api_key |-> api_key,
              model_name |-> IF kwargs["model_name"] = Absent
                             THEN "gemini-2.5-flash" ELSE kwargs["model_name"]]

\* MockProvider.__init__()
MockProvider_init ==
    [kind |-> "instance", cls |-> MockProvider, api_key |-> None,
     model_name |-> "mock-model-v1.0"]

\* A registered provider class that takes api_key and model_name, both optional.
PluginProvider_init(kwargs) ==
    [kind |-> "instance", cls |-> PluginProvider,
     api_key |-> IF kwargs["api_key"] = Absent THEN None ELSE kwargs["api_key"],
     model_name |-> IF kwargs["model_name"] = Absent THEN None
                    ELSE kwargs["model_name"]]

\* provider_class(**kwargs): TypeError for a keyword the constructor lacks.
construct(cls, kwargs) ==
    IF ~(Passed(kwargs) \subseteq accepts(cls)) THEN [kind |-> "TypeError"]
    ELSE CASE cls = GeminiProvider -> GeminiProvider_init(kwargs)
           [] cls = MockProvider -> MockProvider_init
           [] OTHER -> PluginProvider_init(kwargs)

\* The ValueError of an unsupported provider; its text lists the registry's keys.
unsupported(provider_name, registry) ==
    [kind |-> "ValueError", error |-> "Unsupported provider",
     provider_name |-> provider_name, supported |-> DOMAIN registry]

\* get_provider that looks the name up as the caller wrote it.
get_provider_lookup_exact(provider_name, s, kwargs, registry) ==
    IF provider_name \notin DOMAIN registry
    THEN unsupported(provider_name, registry)
    ELSE LET provider_class == registry[provider_name]
             api_key == _resolve_api_key(provider_name, s)
             kw == IF Truthy(api_key) /\ lower(provider_name) \in {"gemini"}
                   THEN [kwargs EXCEPT !["api_key"] = api_key] ELSE kwargs
             first == construct(provider_class, kw)
         IN  IF first.kind = "TypeError"
             THEN construct(provider_class, NoKwargs) ELSE first

\* get_provider after the mock_mode test.
get_provider_lookup(provider_name, s, kwargs, registry) ==
    IF lower(provider_name) \notin DOMAIN registry
    THEN unsupported(provider_name, registry)
    ELSE LET provider_class == registry[lower(provider_name)]
             api_key == _resolve_api_key(provider_name, s)
             kw == IF Truthy(api_key) /\ lower(provider_name) \in {"gemini"}
                   THEN [kwargs EXCEPT !["api_key"] = api_key] ELSE kwargs
             first == construct(provider_class, kw)
         IN  IF first.kind = "TypeError"
             THEN construct(provider_class, NoKwargs) ELSE first

\* get_provider that looks the name up before it tests mock_mode.
get_provider_mock_last(provider_name, mock_mode, s, kwargs, registry) ==
    IF lower(provider_name) \notin DOMAIN registry
    THEN unsupported(provider_name, registry)
    ELSE IF mock_mode THEN MockProvider_init
    ELSE get_provider_lookup(provider_name, s, kwargs, registry)

\* get_provider whose error text names the built-in providers only.
get_provider_static_list(provider_name, mock_mode, s, kwargs, registry) ==
    IF mock_mode THEN MockProvider_init
    ELSE IF lower(provider_name) \notin DOMAIN registry
    THEN [unsupported(provider_name, registry) EXCEPT
             !.supported = {"gemini", "mock"}]
    ELSE get_provider_lookup(provider_name, s, kwargs, registry)

\* ModelProviderFactory.get_provider(provider_name, mock_mode, settings, **kwargs)
\* with the registry as it is at the call: the instance returned, or the
\* exception raised.
get_provider(provider_name, mock_mode, s, kwargs, registry) ==
    IF mock_mode THEN MockProvider_init
    ELSE get_provider_lookup(provider_name, s, kwargs, registry)

\* The keyword arguments callers pass: overrides of the config fields, and
\* the category/platform pair the generate endpoint adds.
KwargsValues ==
    { [k \in KwargNames |->
          CASE k = "api_key" -> ak
            [] k = "model_name" -> mn
            [] k = "category" -> c
            [] OTHER -> IF c = Absent THEN Absent ELSE "web"] :
      ak \in {Absent, "override-key"}, mn \in {Absent, "override-model"},
      c \in {Absent, "Pottery"} }

\* A call of ModelProviderFactory.get_provider.
call_get_provider ==
    /\ \E n \in ProviderNames, mm \in BOOLEAN, kw \in KwargsValues :
          last' = [op |-> "get_provider", provider_name |-> n, mock_mode |-> mm,
                   kwargs |-> kw, registry |-> _providers,
                   result |-> get_provider(n, mm, settings, kw, _providers)]
    /\ UNCHANGED <<_providers, settings, environ>>
    /\ UNCHANGED jobVars

\* A call of ModelProviderFactory._resolve_api_key.
call_resolve_api_key ==
    /\ \E n \in ProviderNames :
          last' = [op |-> "_resolve_api_key", provider_name |-> n,
                   result |-> _resolve_api_key(n, settings)]
    /\ UNCHANGED <<_providers, settings, environ>>
    /\ UNCHANGED jobVars

\* The names and classes callers register at run time.
RegisterNames == {"OpenAI", "openai"}

\* register_provider that starts a new registry with the one binding.
register_provider_replacing(name, provider_class) ==
    /\ _providers' = [k \in {lower(name)} |-> provider_class]
    /\ last' = [op |-> "register_provider", provider_name |-> name,
                provider_class |-> provider_class, result |-> None]
    /\ UNCHANGED <<settings, environ>>
    /\ UNCHANGED jobVars

\* ModelProviderFactory.register_provider(name, provider_class)
register_provider(name, provider_class) ==
    /\ _providers' = [k \in DOMAIN _providers \cup {lower(name)} |->
                         IF k = lower(name) THEN provider_class
                         ELSE _providers[k]]
    /\ last' = [op |-> "register_provider", provider_name |-> name,
                provider_class |-> provider_class, result |-> None]
    /\ UNCHANGED <<settings, environ>>
    /\ UNCHANGED jobVars

call_register_provider ==
    \E n \in RegisterNames, c \in {PluginProvider, MockProvider} :
        register_provider(n, c)

\* GET /v1/providers: the body list_providers returns.
list_providers_body(s, registry) ==
    [default_provider |-> s.default_provider,
     available_providers |-> DOMAIN registry,
     provider_settings |-> s.provider_settings,
     mock_mode |-> s.mock_mode,
     api_key_configured |->
         \/ Truthy(settings_getattr(s, "GOOGLE_API_KEY"))
         \/ Truthy(settings_getattr(s, "google_api_key"))
         \/ Truthy(environ_get("GOOGLE_API_KEY"))]

\* A request to GET /v1/providers.
list_providers ==
    /\ last' = [op |-> "list_providers",
                result |-> list_providers_body(settings, _providers)]
    /\ UNCHANGED <<_providers, settings, environ>>
    /\ UNCHANGED jobVars

\* The class attribute ModelProviderFactory._providers as the module defines it.
BuiltinProviders ==
    [k \in {"gemini", "mock"} |->
        IF k = "gemini" THEN GeminiProvider ELSE MockProvider]

TextInit ==
    /\ _providers = BuiltinProviders
    /\ \E cp \in ConfiguredProviders :
          /\ \E psK \in {None, "", "ps-key"}, akK \in {None, "", "ak-key"} :
                settings = SettingsOf(cp, psK, akK)
          /\ \E envK \in {None, "", "env-key"}, aliasK \in {None, "", "google-key"} :
                environ = EnvironOf(cp, envK, aliasK)
    /\ last = [op |-> "none"]

JobInit ==
    /\ broker = <<>>
    /\ backend = [j \in JobIds |-> NoMeta]
    /\ running = [w \in Workers |-> Idle]
    /\ executions = [j \in JobIds |-> 0]
    /\ issued = <<>>
    /\ lastPoll = [j \in JobIds |-> NoResponse]
    /\ observed = [j \in JobIds |-> <<>>]

TextIdle ==
    /\ _providers = <<>>
    /\ settings = <<>>
    /\ environ = <<>>
    /\ last = <<>>

Init ==
    /\ JobInit
    /\ TextIdle

WorkerStart == \E w \in Workers : worker_start(w)
WorkerSuccess == \E w \in Workers : worker_success(w)
WorkerFailure == \E w \in Workers : worker_failure(w)
GetJobStatus == \E j \in JobIds : get_job_status(j)

Next ==
    \/ create_image_job
    \/ WorkerStart
    \/ WorkerSuccess
    \/ WorkerFailure
    \/ GetJobStatus

Spec == Init /\ [][Next]_vars

NextAnyId ==
    \/ create_image_job_any_id
    \/ WorkerStart
    \/ WorkerSuccess
    \/ WorkerFailure
    \/ GetJobStatus

SpecAnyId == Init /\ [][NextAnyId]_vars

\* The worker pool keeps consuming the queue and every task body ends, and
\* the client keeps polling the ids it holds.
Fairness ==
    /\ WF_vars(WorkerStart)
    /\ WF_vars(WorkerSuccess \/ WorkerFailure)
    /\ \A j \in JobIds : WF_vars(get_job_status(j))

SpecFair == Init /\ [][Next]_vars /\ Fairness

\* The metas the result backend can hold for task job_id, one or more for
\* every state Celery defines.
MetasOf(job_id) ==
    {[state |-> st, result |-> [type |-> "NoneType"]] :
        st \in {"PENDING", "RECEIVED", "STARTED", "REJECTED", "IGNORED"}}
    \cup {[state |-> "SUCCESS", result |-> process_image_job_return(job_id)]}
    \cup {[state |-> st, result |-> [type |-> "Exception", msg |-> msg]] :
        st \in {"FAILURE", "RETRY", "REVOKED"}, msg \in ExcMessages}

\* get_job_status applied to every meta the backend can hold.
InitMapper ==
    /\ broker = <<>>
    /\ backend \in [JobIds -> UNION {MetasOf(j) : j \in JobIds}]
    /\ \A j \in JobIds : backend[j] \in MetasOf(j)
    /\ running = [w \in Workers |-> Idle]
    /\ executions = [j \in JobIds |-> 0]
    /\ issued = <<>>
    /\ lastPoll = [j \in JobIds |-> NoResponse]
    /\ observed = [j \in JobIds |-> <<>>]
    /\ TextIdle

NextMapper ==
    \/ GetJobStatus

SpecMapper == InitMapper /\ [][NextMapper]_vars

InitFactory ==
    /\ JobInit
    /\ TextInit

NextFactory ==
    \/ call_get_provider
    \/ call_resolve_api_key
    \/ call_register_provider
    \/ list_providers

SpecFactory == InitFactory /\ [][NextFactory]_vars

----------------------------------------------------------------------------
(* text-service: the provider strategies' generate_content                 *)

\* The calls of generate_content one behaviour records.
MaxCalls == 2

\* The ContentRequest values the model draws: the documented example and
\* variations of it.
ImageUrls == {"https://img.example/pot.jpg", "https://img.example/gone.jpg"}
ItemNames == {"Clay Pot", "Vase"}
Materials == {"Natural terracotta clay, white paint", "Wood"}

ContentRequests ==
    { [image_url |-> u,
       seller_inputs |-> [item_name |-> n, materials |-> m,
                          inspiration |-> "Monsoon rain",
                          category |-> "Pottery"],
       config |-> [tone |-> "evocative", language |-> "en-IN",
                   target_platform |-> "web"]] :
      u \in ImageUrls, n \in ItemNames, m \in Materials }

\* str.lower() on the seller inputs.
str_lower(s) ==
    CASE s = "Clay Pot" -> "clay pot"
      [] s = "Vase" -> "vase"
      [] s = "Natural terracotta clay, white paint" ->
             "natural terracotta clay, white paint"
      [] s = "Natural terracotta clay" -> "natural terracotta clay"
      [] s = "Wood" -> "wood"
      [] s = "Monsoon rain" -> "monsoon rain"
      [] s = "Pottery" -> "pottery"
      [] OTHER -> s

\* materials.split(',')[0].strip()
first_material(materials) ==
    CASE materials = "Natural terracotta clay, white paint" ->
             "Natural terracotta clay"
      [] OTHER -> materials

\* What the GET of the image URL does: a 200 with image bytes, no connection,
\* a 4xx/5xx answer, or a 200 whose bytes are no image.
FetchOutcomes == {"ok", "unreachable", "http_error", "not_image"}

\* MockProvider.fetch_image(url): every exception ends in the gray placeholder.
MockProvider_fetch_image(url, outcome) ==
    IF outcome = "ok" THEN [image |-> url]
    ELSE [image |-> "RGB 800x600 lightgray"]

\* MockProvider._generate_mock_content(request)
_generate_mock_content(request) ==
    LET item_name == request.seller_inputs.item_name
        materials == request.seller_inputs.materials
        inspiration == request.seller_inputs.inspiration
        category == request.seller_inputs.category
        platform == request.config.target_platform
    IN  [title |-> "Handcrafted " \o item_name \o " - " \o category
                       \o " Collection",
         description |->
             "This exquisite " \o str_lower(item_name)
             \o " showcases the artistry and craftsmanship that goes into every piece. "
             \o "Crafted with care using " \o str_lower(materials)
             \o ", this item represents a unique blend of tradition and contemporary design. "
             \o "The inspiration behind this piece comes from "
             \o str_lower(inspiration)
             \o ", which is reflected in its distinctive character and charm. "
             \o "Whether displayed in your home or given as a gift, this "
             \o str_lower(category) \o " piece tells a story.",
         product_facts |->
             << "Handcrafted " \o str_lower(category) \o " made with premium "
                    \o str_lower(first_material(materials)),
                "Unique design inspired by " \o str_lower(inspiration),
                "One-of-a-kind piece, no two items are exactly alike",
                "Perfect for " \o platform \o " showcasing and presentation" >>,
         blog_snippet_idea |->
             "Discover the story behind this stunning " \o str_lower(item_name)
             \o ". Learn how " \o str_lower(inspiration)
             \o " inspired the creation of this beautiful "
             \o str_lower(category) \o " piece."]

\* generate_content that describes the image it fetched.
MockProvider_generate_content_of_image(request, outcome) ==
    LET image == MockProvider_fetch_image(request.image_url, outcome)
    IN  [kind |-> "return",
         content |-> [_generate_mock_content(request) EXCEPT
                         !.description = @ \o " Image: " \o image.image],
         model_name |-> MockProvider_init.model_name]

\* MockProvider.generate_content(request): the pair it returns.
MockProvider_generate_content(request, outcome) ==
    LET image == MockProvider_fetch_image(request.image_url, outcome)
    IN  [kind |-> "return",
         content |-> _generate_mock_content(request),
         model_name |-> MockProvider_init.model_name]

\* One call of MockProvider.generate_content, added to the calls made so far.
call_mock_generate_content ==
    /\ Len(last.calls) < MaxCalls
    /\ \E r \in ContentRequests, o \in FetchOutcomes :
          last' = [op |-> "MockProvider.generate_content",
                   calls |-> Append(last.calls,
                       [request |-> r, fetch |-> o,
                        result |-> MockProvider_generate_content(r, o)])]
    /\ UNCHANGED <<_providers, settings, environ>>
    /\ UNCHANGED jobVars

InitMock ==
    /\ JobInit
    /\ _providers = BuiltinProviders
    /\ settings = <<>>
    /\ environ = <<>>
    /\ last = [op |-> "none", calls |-> <<>>]

NextMock ==
    \/ call_mock_generate_content

SpecMock == InitMock /\ [][NextMock]_vars

\* The exception classes the Gemini strategy meets, each with the classes it
\* is an instance of.
ExceptionBases(exc) ==
    CASE exc = "httpx.ConnectError" ->
             {"httpx.ConnectError", "httpx.TransportError",
              "httpx.RequestError", "httpx.HTTPError", "Exception"}
      [] exc = "httpx.HTTPStatusError" ->
             {"httpx.HTTPStatusError", "httpx.HTTPError", "Exception"}
      [] exc = "PIL.UnidentifiedImageError" ->
             {"PIL.UnidentifiedImageError", "OSError", "Exception"}
      [] exc = "json.JSONDecodeError" ->
             {"json.JSONDecodeError", "ValueError", "Exception"}
      [] exc = "pydantic.ValidationError" ->
             {"pydantic.ValidationError", "ValueError", "Exception"}
      [] exc = "KeyError" -> {"KeyError", "LookupError", "Exception"}
      [] OTHER -> {exc, "Exception"}

\* True when an except clause naming these classes catches exc.
caught_by(exc, classes) == ExceptionBases(exc) \cap classes # {}

raise(exc, msg) == [kind |-> "raise", exc |-> exc, msg |-> msg]

\* GeminiProvider._fetch_image_async(url): the except clause names
\* httpx.RequestError and re-raises it; every other exception passes it by.
_fetch_image_async(url, outcome) ==
    CASE outcome = "unreachable" -> raise("httpx.ConnectError", "")
      [] outcome = "http_error" -> raise("httpx.HTTPStatusError", "")
      [] outcome = "not_image" -> raise("PIL.UnidentifiedImageError", "")
      [] OTHER -> [kind |-> "return", image |-> url]

\* The replacement fields of GEMINI_ECOMMERCE_TEMPLATE.
TemplatePlaceholders ==
    {"tone", "language", "target_platform", "item_name", "materials",
     "inspiration", "category", "image_url"}

\* The keys of prompt_data.
prompt_data_keys(request) ==
    DOMAIN request.config \cup DOMAIN request.seller_inputs \cup {"image_url"}

\* The texts the model answers with: the JSON object asked for, prose, a JSON
\* object that lacks fields, and a JSON array.
ResponseTexts ==
    {"{\"title\": \"T\", \"description\": \"D\", \"product_facts\": [\"F\"], \"blog_snippet_idea\": \"B\"}",
     "Here is your content!",
     "{\"title\": \"T\"}",
     "[\"T\"]"}

\* json.loads(text)
json_loads(text) ==
    CASE text = "{\"title\": \"T\", \"description\": \"D\", \"product_facts\": [\"F\"], \"blog_snippet_idea\": \"B\"}" ->
             [kind |-> "dict",
              value |-> [title |-> "T", description |-> "D",
                         product_facts |-> <<"F">>,
                         blog_snippet_idea |-> "B"]]
      [] text = "{\"title\": \"T\"}" ->
             [kind |-> "dict", value |-> [title |-> "T"]]
      [] text = "[\"T\"]" -> [kind |-> "list", value |-> <<"T">>]
      [] OTHER -> raise("json.JSONDecodeError", "")

\* The required fields of GeneratedContent.
GeneratedContentFields ==
    {"title", "description", "product_facts", "blog_snippet_idea"}

\* GeneratedContent(**response_json): TypeError when the argument of ** is no
\* mapping, pydantic's ValidationError when a required field is missing.
GeneratedContent_init(response_json) ==
    IF response_json.kind # "dict" THEN raise("TypeError", "")
    ELSE IF ~(GeneratedContentFields \subseteq DOMAIN response_json.value)
    THEN raise("pydantic.ValidationError", "")
    ELSE [kind |-> "return", content |-> response_json.value]

\* The body of the try block of GeminiProvider.generate_content.
generate_content_try(self, request, outcome, text) ==
    LET image == _fetch_image_async(request.image_url, outcome)
        response_json == json_loads(text)
        content == GeneratedContent_init(response_json)
    IN  IF image.kind = "raise" THEN image
        ELSE IF ~(TemplatePlaceholders \subseteq prompt_data_keys(request))
        THEN raise("KeyError", "")
        ELSE IF response_json.kind = "raise" THEN response_json
        ELSE IF content.kind = "raise" THEN content
        ELSE [kind |-> "return", content |-> content.content,
              model_name |-> self.model_name]

\* GeminiProvider.generate_content(request): the pair returned, or the
\* exception that leaves the call.
GeminiProvider_generate_content(self, request, outcome, text) ==
    LET body == generate_content_try(self, request, outcome, text)
    IN  IF /\ body.kind = "raise"
           /\ caught_by(body.exc, {"httpx.RequestError",
                                   "json.JSONDecodeError", "TypeError"})
        THEN raise("Exception", "Failed to generate content from Gemini")
        ELSE body

\* A GeminiProvider constructed with a key.
GeminiInstance ==
    GeminiProvider_init([NoKwargs EXCEPT !["api_key"] = "override-key"])

\* One call of GeminiProvider.generate_content.
call_gemini_generate_content ==
    /\ \E r \in ContentRequests, o \in FetchOutcomes, t \in ResponseTexts :
          last' = [op |-> "GeminiProvider.generate_content",
                   request |-> r, fetch |-> o, text |-> t,
                   result |-> GeminiProvider_generate_content(
                                  GeminiInstance, r, o, t)]
    /\ UNCHANGED <<_providers, settings, environ>>
    /\ UNCHANGED jobVars

InitGemini ==
    /\ JobInit
    /\ _providers = BuiltinProviders
    /\ settings = <<>>
    /\ environ = <<>>
    /\ last = [op |-> "none"]

NextGemini ==
    \/ call_gemini_generate_content

SpecGemini == InitGemini /\ [][NextGemini]_vars

----------------------------------------------------------------------------
(* text-service: POST /v1/content/generate                                 *)

\* The provider query parameter: absent, or a name.
ProviderParams == {None, "gemini", "mock", "nope"}

\* ai_provider.generate_content(request) for the instance get_provider
\* returned.
provider_generate_content(ai_provider, request, outcome, text) ==
    IF ai_provider.cls = MockProvider
    THEN MockProvider_generate_content(request, outcome)
    ELSE GeminiProvider_generate_content(ai_provider, request, outcome, text)

HTTPException(status_code, detail) ==
    [status_code |-> status_code, detail |-> detail]

\* create_product_content(request, provider, settings): the response, with
\* what get_provider and generate_content ended with.
create_product_content(request, provider, s, registry, outcome, text) ==
    LET provider_name == IF Truthy(provider) THEN provider
                         ELSE s.default_provider
        kwargs == [NoKwargs EXCEPT
                      !["category"] = request.seller_inputs.category,
                      !["platform"] = request.config.target_platform]
        ai_provider == get_provider(provider_name, s.mock_mode, s, kwargs,
                                    registry)
        generated == provider_generate_content(ai_provider, request,
                                               outcome, text)
        actual_provider == IF s.mock_mode THEN "mock" ELSE provider_name
    IN  IF ai_provider.kind # "instance"
        THEN [ai_provider |-> ai_provider, generated |-> [kind |-> "none"],
              response |->
                  IF caught_by(ai_provider.kind, {"ValueError"})
                  THEN HTTPException(400, ai_provider.error)
                  ELSE HTTPException(500, "An internal server error occurred")]
        ELSE [ai_provider |-> ai_provider, generated |-> generated,
              response |->
                  IF generated.kind = "raise"
                  THEN IF caught_by(generated.exc, {"ValueError"})
                       THEN HTTPException(400, generated.msg)
                       ELSE HTTPException(500,
                                "An internal server error occurred")
                  ELSE [status_code |-> 200,
                        generated_content |-> generated.content,
                        ai_model_used |-> generated.model_name,
                        metadata |-> [provider |-> actual_provider,
                                      model |-> generated.model_name]]]

\* One request to POST /v1/content/generate.
call_create_product_content ==
    /\ \E r \in ContentRequests, p \in ProviderParams,
          o \in FetchOutcomes, t \in ResponseTexts :
          last' = [op |-> "create_product_content", request |-> r,
                   provider |-> p, fetch |-> o, text |-> t,
                   result |-> create_product_content(r, p, settings,
                                                     _providers, o, t)]
    /\ UNCHANGED <<_providers, settings, environ>>
    /\ UNCHANGED jobVars

\* The service as deployed: MOCK_MODE on or off, the Gemini key in the
\* settings, in GOOGLE_API_KEY, in both or in neither.
InitEndpoint ==
    /\ JobInit
    /\ _providers = BuiltinProviders
    /\ \E mm \in BOOLEAN, psK \in {None, "ps-key"} :
          settings = [SettingsOf("gemini", psK, None) EXCEPT !.mock_mode = mm]
    /\ \E aliasK \in {None, "google-key"} :
          environ = EnvironOf("gemini", None, aliasK)
    /\ last = [op |-> "none"]

NextEndpoint ==
    \/ call_create_product_content

SpecEndpoint == InitEndpoint /\ [][NextEndpoint]_vars

----------------------------------------------------------------------------
(* Claims: image-service                                                   *)

\* Position of a status in the order QUEUED, PROCESSING, (COMPLETED | FAILED).
Rank(status) ==
    CASE status = QUEUED -> 0
      [] status = PROCESSING -> 1
      [] OTHER -> 2

\* C1: for every job id, each status a poll returns is later in the order
\* QUEUED, PROCESSING, (COMPLETED | FAILED) than every different status an
\* earlier poll of the same id returned; a terminal status, once returned,
\* is the only status later polls return.
C1_ObservedStatusNeverRegresses ==
    \A j \in JobIds : \A a, b \in 1..Len(observed[j]) :
        a < b => Rank(observed[j][a]) < Rank(observed[j][b])

\* A job polled before a worker took it and again after it finished.
C1_Witness ==
    \E j \in JobIds : \E k \in JobIds \ {j} :
        /\ observed[j] = <<QUEUED, COMPLETED>>
        /\ observed[k] = <<QUEUED, FAILED>>

\* C7: in every response of get_job_status, result_url is set exactly when
\* the status is COMPLETED and error is set exactly when it is FAILED.
C7_ResultIffCompletedErrorIffFailed ==
    \A j \in JobIds :
        lastPoll[j].status # None =>
            /\ (lastPoll[j].result_url # None) <=> (lastPoll[j].status = COMPLETED)
            /\ (lastPoll[j].error # None) <=> (lastPoll[j].status = FAILED)

\* Polls have returned a QUEUED and then a COMPLETED snapshot of one job,
\* and a FAILED snapshot of another.
C7_Witness ==
    \E j, k \in IssuedIds :
        /\ observed[j] = <<QUEUED, COMPLETED>>
        /\ lastPoll[j].status = COMPLETED /\ lastPoll[j].result_url # None
        /\ lastPoll[k].status = FAILED /\ lastPoll[k].error # None

C9_SubmitEnqueuesOnceAndReturnsQueued ==
    [][/\ Len(issued') = Len(issued) + 1 =>
             LET r == issued'[Len(issued')]
             IN  /\ r.status = QUEUED
                 /\ broker' = Append(broker, r.job_id)
                 /\ backend' = backend
                 /\ running' = running
                 /\ executions' = executions
       /\ \A j \in JobIds :
             (lastPoll'[j] # lastPoll[j] /\ executions[j] = 0)
                 => lastPoll'[j].status = QUEUED]_vars

\* Submit has returned for a job that is still on the broker with every
\* worker idle, and a poll of it has returned QUEUED.
C9_Witness ==
    \E i \in 1..Len(issued) :
        LET j == issued[i].job_id
        IN  /\ issued[i].status = QUEUED
            /\ \E n \in 1..Len(broker) : broker[n] = j
            /\ \A w \in Workers : running[w] = Idle
            /\ \A k \in JobIds : executions[k] = 0
            /\ lastPoll[j].status = QUEUED

\* C10: the work of one job id is executed at most once, also when two
\* messages were published under that id.
C10_SameIdExecutedAtMostOnce ==
    \A j \in JobIds : executions[j] <= 1

----------------------------------------------------------------------------
(* Claims: text-service                                                    *)

\* C2: get_provider called with mock_mode true returns a MockProvider
\* instance whatever the provider name, the settings and the keyword
\* arguments are, and raises nothing.
C2_MockModeAlwaysYieldsMock ==
    (last.op = "get_provider" /\ last.mock_mode) =>
        /\ last.result.kind = "instance"
        /\ last.result.cls = MockProvider

\* mock_mode with a name that is not registered, and with overrides passed.
C2_Witness ==
    /\ last.op = "get_provider" /\ last.mock_mode
    /\ lower(last.provider_name) \notin DOMAIN last.registry
    /\ last.kwargs["api_key"] # Absent
    /\ last.result.kind = "instance" /\ last.result.cls = MockProvider

\* C3: with mock_mode false, a name whose lower-cased form is no key of
\* the registry makes get_provider raise the unsupported-provider error,
\* which lists exactly the keys of the registry at the call, and no
\* instance is returned.
C3_UnknownNameRaisesUnsupported ==
    (/\ last.op = "get_provider" /\ ~last.mock_mode
     /\ lower(last.provider_name) \notin DOMAIN last.registry) =>
        /\ last.result.kind = "ValueError"
        /\ last.result.error = "Unsupported provider"
        /\ last.result.supported = DOMAIN last.registry

\* An unknown name after a provider was registered at run time: the error
\* lists the two built-in names and the registered one.
C3_Witness ==
    /\ last.op = "get_provider" /\ ~last.mock_mode
    /\ last.provider_name = "nope"
    /\ last.result.kind = "ValueError"
    /\ last.result.supported = {"gemini", "mock", "openai"}

\* Every non-empty credential of the configuration.
ConfiguredKeys ==
    { v \in {settings.provider_settings[p].api_key : p \in SettingsProviders}
         \cup {settings.api_keys[p] : p \in SettingsProviders}
         \cup {environ[n] : n \in EnvNames} : Truthy(v) }

\* Every string of a /v1/providers body.
BodyStrings(body) ==
    {body.default_provider} \cup body.available_providers
        \cup {body.provider_settings[p].model_name : p \in DOMAIN body.provider_settings}
        \cup {body.provider_settings[p].api_key : p \in DOMAIN body.provider_settings}

\* C4: no configured API key value appears in the body GET /v1/providers
\* returns.
C4_ProvidersListHidesKeys ==
    last.op = "list_providers" =>
        ConfiguredKeys \cap BodyStrings(last.result) = {}

\* C5: when get_provider (mock_mode false) returns an instance and was
\* passed an override of api_key or model_name while settings or the
\* environment also yield a value for that field, the instance holds the
\* override's value.
C5_OverrideBeatsSettings ==
    (/\ last.op = "get_provider" /\ ~last.mock_mode
     /\ last.result.kind = "instance") =>
        /\ (/\ last.kwargs["api_key"] # Absent
            /\ Truthy(_resolve_api_key(last.provider_name, settings)))
               => last.result.api_key = last.kwargs["api_key"]
        /\ (/\ last.kwargs["model_name"] # Absent
            /\ lower(last.provider_name) \in DOMAIN settings.provider_settings)
               => last.result.model_name = last.kwargs["model_name"]

\* The first non-empty value of a sequence of optional strings, else None.
RECURSIVE FirstSet(_)
FirstSet(tiers) ==
    IF tiers = <<>> THEN None
    ELSE IF Truthy(Head(tiers)) THEN Head(tiers)
    ELSE FirstSet(Tail(tiers))

\* C6: _resolve_api_key returns the value of the first tier holding a
\* non-empty value, in the order provider_settings[provider].api_key,
\* api_keys[provider], the variable <PROVIDER>_API_KEY, and for gemini the
\* variable GOOGLE_API_KEY; it returns None when no tier holds one.
C6_ResolverTakesHighestTier ==
    last.op = "_resolve_api_key" =>
        LET p == lower(last.provider_name)
            t1 == IF p \in DOMAIN settings.provider_settings
                  THEN settings.provider_settings[p].api_key ELSE None
            t2 == IF p \in DOMAIN settings.api_keys
                  THEN settings.api_keys[p] ELSE None
            t3 == environ[env_var(p)]
            t4 == IF p = "gemini" THEN environ["GOOGLE_API_KEY"] ELSE None
        IN  last.result = FirstSet(<<t1, t2, t3, t4>>)

\* The first tier is empty, the next two both hold a key, and the resolver
\* returned the key of the api_keys map.
C6_Witness ==
    /\ last.op = "_resolve_api_key"
    /\ last.provider_name = "GEMINI"
    /\ settings.provider_settings["gemini"].api_key = ""
    /\ settings.api_keys["gemini"] = "ak-key"
    /\ environ["GEMINI_API_KEY"] = "env-key"
    /\ environ["GOOGLE_API_KEY"] = "google-key"
    /\ last.result = "ak-key"

----------------------------------------------------------------------------
(* Claims: image-service, failures and frame conditions                    *)

\* C11: a job whose execution raised is stored as failed, no worker slot
\* stays occupied by it, and every poll that reports it FAILED carries a
\* non-empty error string.
C11_FailedJobHasNonEmptyError ==
    \A j \in JobIds :
        backend[j].state = "FAILURE" =>
            /\ \A w \in Workers : running[w] # <<j>>
            /\ lastPoll[j].status = FAILED =>
                  (lastPoll[j].error # None /\ lastPoll[j].error # "")

\* C12: a step in which a poll returns changes neither the broker, the
\* backend, the workers nor the responses of submit; a step in which submit
\* returns changes neither the backend nor a worker nor a poll's response;
\* the backend changes only in a step of a worker.
C12_OnlyWorkersChangeJobs ==
    [][/\ (lastPoll' # lastPoll \/ observed' # observed) =>
              /\ broker' = broker /\ backend' = backend
              /\ running' = running /\ executions' = executions
              /\ issued' = issued
       /\ issued' # issued =>
              /\ backend' = backend /\ running' = running
              /\ lastPoll' = lastPoll
       /\ backend' # backend => running' # running]_vars

\* Polls have answered for a finished job and for an id that was never
\* issued, while another job waits on the broker.
C12_Witness ==
    /\ broker # <<>>
    /\ \E j \in IssuedIds : backend[j].state = "SUCCESS" /\ lastPoll[j].status = COMPLETED
    /\ \E u \in JobIds \ IssuedIds : lastPoll[u].status = QUEUED

\* C13: once the backend holds a terminal state (SUCCESS or FAILURE) for a
\* job, no later step changes the state or the result stored for it.
C13_TerminalJobIsFrozen ==
    [][\A j \in JobIds :
          backend[j].state \in {"SUCCESS", "FAILURE"} =>
              backend'[j] = backend[j]]_vars

\* The states after which Celery runs a task no further.
TerminalCeleryStates == {"SUCCESS", "FAILURE", "REVOKED"}

\* C14: get_job_status maps PENDING to QUEUED, STARTED and RETRY to
\* PROCESSING, SUCCESS to COMPLETED and every terminal failure state to
\* FAILED; a terminal state is never reported as QUEUED or PROCESSING.
C14_StatusTableCoversCeleryStates ==
    \A j \in JobIds :
        lastPoll[j].status # None =>
            LET st == backend[j].state
                status == lastPoll[j].status
            IN  /\ st = "PENDING" => status = QUEUED
                /\ st \in {"STARTED", "RETRY"} => status = PROCESSING
                /\ st = "SUCCESS" => status = COMPLETED
                /\ st \in TerminalCeleryStates \ {"SUCCESS"} => status = FAILED
                /\ st \in TerminalCeleryStates => status \in {COMPLETED, FAILED}

----------------------------------------------------------------------------
(* Claims: text-service, the provider strategies                           *)

\* C15: MockProvider.generate_content is a function of the request alone: any
\* two calls with equal ContentRequest values return the same GeneratedContent
\* and the same model name, whatever the image fetch did in either call and
\* whatever calls came before.
C15_MockIsFunctionOfRequest ==
    \A i, k \in 1..Len(last.calls) :
        LET a == last.calls[i]
            b == last.calls[k]
        IN  /\ a.result.kind = "return"
            /\ a.request = b.request =>
                  /\ a.result.content = b.result.content
                  /\ a.result.model_name = b.result.model_name

\* Two calls with the same request, the image fetched in one and failing in
\* the other, after which the contents are compared.
C15_Witness ==
    /\ Len(last.calls) = 2
    /\ last.calls[1].request = last.calls[2].request
    /\ last.calls[1].fetch = "ok"
    /\ last.calls[2].fetch = "http_error"
    /\ last.calls[2].result.content.title = "Handcrafted Vase - Pottery Collection"

\* The single error generate_content raises for a failed generation.
ContentGenerationError ==
    raise("Exception", "Failed to generate content from Gemini")

\* C16: when the image fetch fails in transport or with an HTTP error status,
\* or the response text is no JSON or no GeneratedContent, the call of
\* GeminiProvider.generate_content raises the content-generation error and
\* returns no content.
C16_GeminiFailuresRaiseOneKind ==
    last.op = "GeminiProvider.generate_content" =>
        LET failed ==
                \/ last.fetch \in {"unreachable", "http_error"}
                \/ json_loads(last.text).kind = "raise"
                \/ GeneratedContent_init(json_loads(last.text)).kind = "raise"
        IN  failed => last.result = ContentGenerationError

----------------------------------------------------------------------------
(* Claims: text-service, construction and the registry                     *)

\* C17: when get_provider finds the name registered but the constructor
\* fails, the error raised is of a kind other than the unsupported-provider
\* error and carries the cause and the attempted config.
C17_ConstructionFailureIsWrapped ==
    (/\ last.op = "get_provider"
     /\ ~last.mock_mode
     /\ lower(last.provider_name) \in DOMAIN last.registry
     /\ last.result.kind # "instance") =>
        /\ last.result.kind #
               unsupported(last.provider_name, last.registry).kind
        /\ {"cause", "config"} \subseteq DOMAIN last.result

\* C18: lookup ignores the case of the name. register_provider(n, C) binds C
\* to the lower-cased n, and get_provider with mock_mode false and a name
\* whose lower-cased form is registered does not raise the unsupported-provider
\* error, constructs the class bound to the lower-cased name, and ends as the
\* call with the lower-cased name ends.
C18_LookupIgnoresCase ==
    /\ last.op = "register_provider" =>
          /\ lower(last.provider_name) \in DOMAIN _providers
          /\ _providers[lower(last.provider_name)] = last.provider_class
    /\ (/\ last.op = "get_provider"
        /\ ~last.mock_mode
        /\ lower(last.provider_name) \in DOMAIN last.registry) =>
          /\ last.result # unsupported(last.provider_name, last.registry)
          /\ last.result.kind = "instance" =>
                last.result.cls = last.registry[lower(last.provider_name)]
          /\ last.result = get_provider(lower(last.provider_name), FALSE,
                                        settings, last.kwargs, last.registry)

\* A class registered at run time is constructed for a name written in
\* another case than the registry's key.
C18_Witness ==
    /\ last.op = "get_provider"
    /\ ~last.mock_mode
    /\ last.provider_name = "OpenAI"
    /\ "openai" \in DOMAIN last.registry
    /\ last.result.kind = "instance"
    /\ last.result.cls = last.registry["openai"]

\* C19: the registry only grows, one lower-cased name per registration. At all
\* times list_providers returns the keys of the registry, which hold the
\* built-in names, and get_provider with mock_mode false does not raise the
\* unsupported-provider error for any of them; a step that registers a name
\* adds that name and leaves the class bound to every other name as it was,
\* and no other step changes the registry.
C19_RegistryGrowsByRegisteredNames ==
    /\ [](/\ DOMAIN BuiltinProviders \subseteq DOMAIN _providers
          /\ last.op = "list_providers" =>
                last.result.available_providers = DOMAIN _providers
          /\ \A n \in DOMAIN _providers :
                get_provider(n, FALSE, settings, NoKwargs, _providers)
                    # unsupported(n, _providers))
    /\ [][LET registered ==
                  IF last'.op = "register_provider"
                  THEN {lower(last'.provider_name)} ELSE {}
          IN  /\ DOMAIN _providers' = DOMAIN _providers \cup registered
              /\ \A k \in DOMAIN _providers \ registered :
                    _providers'[k] = _providers[k]]_vars

\* list_providers after a registration: the two built-in names and the
\* registered one.
C19_Witness ==
    /\ last.op = "list_providers"
    /\ last.result.available_providers = {"gemini", "mock", "openai"}
    /\ _providers["gemini"] = GeminiProvider
    /\ _providers["mock"] = MockProvider

----------------------------------------------------------------------------
(* Claims: image-service, termination                                      *)

\* A poll of job j has returned COMPLETED with a result or FAILED with an
\* error.
PolledTerminal(j) ==
    \/ /\ lastPoll[j].status = COMPLETED
       /\ lastPoll[j].result_url # None
    \/ /\ lastPoll[j].status = FAILED
       /\ lastPoll[j].error # None

\* C20: with a worker that keeps working and a client that keeps polling,
\* every job id create_image_job returned is eventually polled as COMPLETED
\* with a result or as FAILED with an error; and a poll returns FAILED only
\* for a job whose execution raised, so a job whose execution returned ends
\* COMPLETED.
C20_IssuedJobReachesTerminalStatus ==
    /\ \A j \in JobIds : (j \in IssuedIds) ~> PolledTerminal(j)
    /\ [](\A j \in JobIds :
             /\ lastPoll[j].status = FAILED => backend[j].state = "FAILURE"
             /\ (/\ backend[j].state = "SUCCESS"
                 /\ lastPoll[j].status \in {COMPLETED, FAILED}) =>
                    lastPoll[j].status = COMPLETED)

\* Both endings have been polled: one job COMPLETED with its result, another
\* FAILED with its error.
C20_Witness ==
    \E j, k \in IssuedIds :
        /\ lastPoll[j].status = COMPLETED
        /\ lastPoll[j].result_url # None
        /\ lastPoll[k].status = FAILED
        /\ lastPoll[k].error # None

----------------------------------------------------------------------------
(* Claims: image-service, the worker's writes                              *)

\* Some worker is executing job j.
Executing(j) == \E w \in Workers : running[w] = <<j>>

\* C21: the worker marks a job PROCESSING when it takes it off the queue: a
\* poll answered while a worker is executing the job returns PROCESSING, and
\* a job a worker has finished was stored as PROCESSING while it ran.
C21_RunningJobIsProcessing ==
    [][\A j \in JobIds :
          /\ (/\ Executing(j)
              /\ Executing(j)'
              /\ lastPoll'[j] # lastPoll[j]) =>
                lastPoll'[j].status = PROCESSING
          /\ (Executing(j) /\ ~Executing(j)') =>
                api_status(backend[j].state) = PROCESSING]_vars

----------------------------------------------------------------------------
(* Claims: text-service, the constructed config and the generate endpoint  *)

\* C22: for a registered provider other than the mock, get_provider with
\* mock_mode false builds the instance from the resolved config under the
\* caller's overrides: a non-empty resolved api key is the instance's api key
\* unless the caller overrides it, and the model name of the provider's
\* settings block is the instance's model name unless the caller overrides
\* it, whatever other keyword arguments the caller passes.
C22_InstanceUsesResolvedConfig ==
    (/\ last.op = "get_provider"
     /\ ~last.mock_mode
     /\ lower(last.provider_name) \in DOMAIN last.registry
     /\ last.registry[lower(last.provider_name)] # MockProvider) =>
        LET p == lower(last.provider_name)
            key == _resolve_api_key(last.provider_name, settings)
        IN  /\ (Truthy(key) /\ last.kwargs["api_key"] = Absent) =>
                  /\ last.result.kind = "instance"
                  /\ last.result.api_key = key
            /\ (/\ p \in DOMAIN settings.provider_settings
                /\ last.kwargs["model_name"] = Absent
                /\ last.result.kind = "instance") =>
                  last.result.model_name =
                      settings.provider_settings[p].model_name

\* C23: on POST /v1/content/generate a configuration error met while the
\* provider is resolved is answered with 400, a failure inside
\* generate_content is answered with 500 and never with 400, and a 200 is
\* answered only when neither failed.
C23_EndpointSeparatesClientAndServerErrors ==
    last.op = "create_product_content" =>
        LET r == last.result
        IN  /\ r.ai_provider.kind # "instance" => r.response.status_code = 400
            /\ r.generated.kind = "raise" => r.response.status_code = 500
            /\ r.response.status_code = 200 =>
                  /\ r.ai_provider.kind = "instance"
                  /\ r.generated.kind = "return"

----------------------------------------------------------------------------
(* Claims: image-service, retries and unknown ids                          *)

\* The number of times create_image_job has returned id j.
TimesIssued(j) == Cardinality({i \in 1..Len(issued) : issued[i].job_id = j})

\* The ids waiting on the broker.
Queued == {broker[i] : i \in 1..Len(broker)}

\* C24: nothing is retried. A job is executed at most once for every time it
\* was enqueued, and once a job is stored as failed no step executes it
\* again, enqueues it again or changes what is stored for it.
C24_NoAutomaticRetry ==
    /\ [](\A j \in JobIds : executions[j] <= TimesIssued(j))
    /\ [][\A j \in JobIds :
             backend[j].state = "FAILURE" =>
                 /\ backend'[j] = backend[j]
                 /\ executions'[j] = executions[j]
                 /\ j \notin Queued'
                 /\ ~Executing(j)']_vars

\* A job has failed after one execution and the system has gone on to finish
\* another job, the failed one still stored and polled as failed.
C24_Witness ==
    \E j, k \in IssuedIds :
        /\ backend[j].state = "FAILURE"
        /\ executions[j] = 1
        /\ lastPoll[j].status = FAILED
        /\ backend[k].state = "SUCCESS"
        /\ broker = <<>>
        /\ \A w \in Workers : running[w] = Idle

\* C25: a poll of an id create_image_job never returned is answered like a
\* poll of a job still waiting on the queue: status QUEUED with no result and
\* no error, the same response but for the id, at every poll for as long as
\* the id has not been returned.
C25_UnknownIdLooksQueued ==
    \A j \in JobIds \ IssuedIds :
        lastPoll[j].status # None =>
            /\ lastPoll[j] = [job_id |-> j, status |-> QUEUED,
                              result_url |-> None, error |-> None,
                              queue_position |-> None]
            /\ observed[j] = <<QUEUED>>
            /\ \A k \in Queued \cap IssuedIds :
                  lastPoll[k].status # None =>
                      [lastPoll[k] EXCEPT !.job_id = j] = lastPoll[j]

\* An id never returned and a job waiting on the queue have both been polled.
C25_Witness ==
    \E j \in JobIds \ IssuedIds, k \in Queued \cap IssuedIds :
        /\ lastPoll[j].status = QUEUED
        /\ lastPoll[k].status = QUEUED
        /\ Len(observed[j]) = 1

====
